---- MODULE Spec2Model ----
(***************************************************************************)
(* Solar design dashboard (src/main.py): a script that is re-run from top  *)
(* to bottom on every user interaction.  Its state is the per-session      *)
(* store (st.session_state), the widget values, and the memo of            *)
(* run_full_sim (st.cache_data).                                           *)
(*                                                                         *)
(* Numbers: Python floats are modelled as exact rationals [n, d] in lowest *)
(* terms with d > 0.  Input grids are coarse (tenths, twentieths) so that  *)
(* every numerator stays inside TLC's integers.                            *)
(***************************************************************************)
EXTENDS Integers, Sequences, FiniteSets, TLC

VARIABLES
    session_state,   \* st.session_state: location, last_address, location_name,
                     \* scenarios, comparison_mode, selected_comparison
    widgets,         \* the widget values the browser holds between reruns
    cache,           \* the memo of run_full_sim: arguments -> returned tuple
    view,            \* what the last page run computed and displayed
    nruns,           \* page runs so far (bounded by MaxRuns)
    sim_in,          \* one hour's inputs to the power pipeline of run_full_sim
    sim_out,         \* the pipeline's intermediate and final values for sim_in
    year             \* one configuration's weather year, its annual sums and
                     \* the two charts drawn from them

vars == <<session_state, widgets, cache, view, nruns, sim_in, sim_out, year>>

-----------------------------------------------------------------------------
(* Bounds of the model *)

\* page runs explored in one session
MaxRuns == 5
\* hourly records in a weather series (8760 in production)
Hours == 3
\* the plane-of-array grid of the hourly pipeline runs to PoaSteps * 500 W/m2
PoaSteps == 2
\* hourly records in the weather year of the annual sums
YearHours == 2
\* the longest analysis period of the degradation forecast (40 in production)
MaxYears == 3

-----------------------------------------------------------------------------
(* Exact rational arithmetic standing for Python float arithmetic *)

Abs(x) == IF x < 0 THEN -x ELSE x

RECURSIVE GCD(_, _)
GCD(a, b) == IF b = 0 THEN a ELSE GCD(b, a % b)

\* n / d with the common factor g taken out and the sign in the numerator
Reduced(n, d, g) ==
    IF d < 0 THEN [n |-> -(n \div g), d |-> -(d \div g)]
    ELSE [n |-> n \div g, d |-> d \div g]

Rat(n, d) == Reduced(n, d, GCD(Abs(n), Abs(d)))

R(i) == [n |-> i, d |-> 1]

\* a product, cross-reduced first so that intermediate values stay small
\* a * b with g1 = gcd(a.n, b.d) and g2 = gcd(b.n, a.d) taken out
CrossReduced(a, b, g1, g2) ==
    [n |-> (a.n \div g1) * (b.n \div g2), d |-> (a.d \div g2) * (b.d \div g1)]

RMul(a, b) ==
    IF a.n = 0 \/ b.n = 0 THEN R(0)
    ELSE CrossReduced(a, b, GCD(Abs(a.n), b.d), GCD(Abs(b.n), a.d))

\* a + b over the least common denominator, g the gcd of the denominators
OverCommon(a, b, g) ==
    Rat(a.n * (b.d \div g) + b.n * (a.d \div g), a.d * (b.d \div g))

RAdd(a, b) == OverCommon(a, b, GCD(a.d, b.d))

RNeg(a) == [n |-> -a.n, d |-> a.d]

RSub(a, b) == RAdd(a, RNeg(b))

\* a / b for b # 0
RDiv(a, b) ==
    RMul(a, IF b.n < 0 THEN [n |-> -b.d, d |-> -b.n] ELSE [n |-> b.d, d |-> b.n])

\* a <= b over the least common denominator
LeOverCommon(a, b, g) == a.n * (b.d \div g) <= b.n * (a.d \div g)

RLe(a, b) == LeOverCommon(a, b, GCD(a.d, b.d))

RLt(a, b) == RLe(a, b) /\ a # b

RMin(a, b) == IF RLe(a, b) THEN a ELSE b

RIsZero(a) == a.n = 0

\* 1 - f
OneMinus(f) == RSub(R(1), f)

RECURSIVE RSumUpTo(_, _)
RSumUpTo(s, k) == IF k = 0 THEN R(0) ELSE RAdd(RSumUpTo(s, k - 1), s[k])

\* pandas Series.sum()
RSum(s) == RSumUpTo(s, Len(s))

-----------------------------------------------------------------------------
(* run_full_sim: the hourly power pipeline (src/main.py 304-329) *)

MountTypes == {"Open Rack", "Roof Mounted/Insulated"}

\* sapm_cell at zero wind: cell temperature rises linearly with POA; the
\* open-rack set gives about 3 C per 100 W/m2, the insulated-back set about 6.
SapmRisePer100(mount) == IF mount = "Open Rack" THEN 3 ELSE 6

\* temp_cell = sapm_cell(poa_global, temp_air, wind_speed, **temp_params)
SapmCell(poa, temp_air, mount) ==
    RAdd(temp_air, RMul(poa, Rat(SapmRisePer100(mount), 100)))

\* dc_raw = (poa_global / 1000) * dc_kw * (1 - 0.004 * (temp_cell - 25))
DcRaw(poa, temp_cell, dc_kw) ==
    RMul(RMul(RDiv(poa, R(1000)), dc_kw),
         OneMinus(RMul(Rat(4, 1000), RSub(temp_cell, R(25)))))

\* dc_net = dc_raw * (1 - losses['soiling']) * (1 - losses['dc'])
DcNet(dc_raw, losses) ==
    RMul(RMul(dc_raw, OneMinus(losses.soiling)), OneMinus(losses.dc))

\* AcPower with the inverter limit left out (a faulty variant)
AcPowerNoClip(dc_net, inv_eff, ac_limit) == RMul(dc_net, inv_eff)

\* ac_power = (dc_net * inv_eff).clip(upper=ac_limit)
AcPower(dc_net, inv_eff, ac_limit) == RMin(RMul(dc_net, inv_eff), ac_limit)

\* AcFinal with the AC-side losses added instead of deducted (a faulty variant)
AcFinalGain(ac_power, losses) ==
    RMul(RMul(ac_power, RAdd(R(1), losses.ac)), RAdd(R(1), losses.avail))

\* ac_final = ac_power * (1 - losses['ac']) * (1 - losses['avail'])
AcFinal(ac_power, losses) ==
    RMul(RMul(ac_power, OneMinus(losses.ac)), OneMinus(losses.avail))

\* one hour of the pipeline, every intermediate kept
\* the steps of one hour in turn (src/main.py 310, 318, 321, 324, 327), each
\* handing its value on to the next
HourAcFinal(temp_cell, dc_raw, dc_net, ac_power, losses, inv_eff) ==
    [temp_cell |-> temp_cell, dc_raw |-> dc_raw, dc_net |-> dc_net,
     ac_in |-> RMul(dc_net, inv_eff), ac_power |-> ac_power,
     ac_final |-> AcFinal(ac_power, losses)]

HourAcPower(temp_cell, dc_raw, dc_net, ac_limit, losses, inv_eff) ==
    HourAcFinal(temp_cell, dc_raw, dc_net, AcPower(dc_net, inv_eff, ac_limit),
                losses, inv_eff)

HourDcNet(temp_cell, dc_raw, ac_limit, losses, inv_eff) ==
    HourAcPower(temp_cell, dc_raw, DcNet(dc_raw, losses), ac_limit, losses,
                inv_eff)

HourDcRaw(poa, temp_cell, dc_kw, ac_limit, losses, inv_eff) ==
    HourDcNet(temp_cell, DcRaw(poa, temp_cell, dc_kw), ac_limit, losses,
              inv_eff)

HourPipeline(poa, temp_air, dc_kw, ac_limit, losses, mount, inv_eff) ==
    HourDcRaw(poa, SapmCell(poa, temp_air, mount), dc_kw, ac_limit, losses,
              inv_eff)

-----------------------------------------------------------------------------
(* The hourly pipeline on its own: inputs drawn from grids, then applied *)

\* loss fractions in [0, 1)
LossGrid == {R(0), Rat(1, 10), Rat(9, 10)}
SmallLossGrid == {R(0), Rat(1, 10)}

\* plane-of-array irradiance in W/m2: pvlib does not clamp it, so a negative
\* value in the weather data reaches the pipeline as it is
PoaGrid == {R(-100)} \cup {R(500 * k) : k \in 0..PoaSteps}

\* ambient temperature in degrees C
TempAirGrid == {R(-10), R(25), R(40)}

\* DC capacity in kWp and AC limit in kW
DcGrid == {Rat(1, 2), R(2), R(4)}
AcLimitGrid == {R(1), R(2)}

\* inverter efficiency in (0, 1]
InvEffGrid == {Rat(9, 10), R(1)}

SimInputs ==
    [poa : PoaGrid, temp_air : TempAirGrid, dc_kw : DcGrid,
     ac_limit : AcLimitGrid,
     losses : [soiling : LossGrid, dc : SmallLossGrid, ac : SmallLossGrid,
               avail : SmallLossGrid],
     mount : MountTypes, inv_eff : InvEffGrid]

SimIdle ==
    [done |-> FALSE, temp_cell |-> R(0), dc_raw |-> R(0), dc_net |-> R(0),
     ac_in |-> R(0), ac_power |-> R(0), ac_final |-> R(0)]

SimIdleIn ==
    [poa |-> R(0), temp_air |-> R(25), dc_kw |-> R(2), ac_limit |-> R(1),
     losses |-> [soiling |-> R(0), dc |-> R(0), ac |-> R(0), avail |-> R(0)],
     mount |-> "Open Rack", inv_eff |-> R(1)]

SessionUnchanged == UNCHANGED <<session_state, widgets, cache, view, nruns>>

\* the pipeline runs on the hour at hand
SimulateHour ==
    /\ ~sim_out.done
    /\ sim_out' = [done |-> TRUE] @@
                  HourPipeline(sim_in.poa, sim_in.temp_air, sim_in.dc_kw,
                               sim_in.ac_limit, sim_in.losses, sim_in.mount,
                               sim_in.inv_eff)
    /\ UNCHANGED <<sim_in, year>>
    /\ SessionUnchanged

\* the next hour's record is read: the configuration stays, the weather moves
NextHour ==
    /\ sim_out.done
    /\ \E p \in PoaGrid, t \in TempAirGrid :
         sim_in' = [sim_in EXCEPT !.poa = p, !.temp_air = t]
    /\ sim_out' = SimIdle
    /\ UNCHANGED year
    /\ SessionUnchanged

-----------------------------------------------------------------------------
(* Values of the session *)

\* Optional strings (Python None or a str)
NoneStr == [isNone |-> TRUE, s |-> ""]
Str(x) == [isNone |-> FALSE, s |-> x]

\* Coordinates are kept in hundredths of a degree
NoLocation == [isNone |-> TRUE, lat |-> 0, lon |-> 0]
Loc(la, lo) == [isNone |-> FALSE, lat |-> la, lon |-> lo]

\* lat, lon = 37.38, -5.98
DefaultLat == 3738
DefaultLon == -598
DefaultLocationName == "Seville, Spain (default)"

\* address = st.text_input("Site Address", value="Seville, Spain")
DefaultAddress == "Seville, Spain"
Addresses == {DefaultAddress, "Atlantis"}

\* what geolocator.geocode answers for an address it knows
GeoCoord(address) == Loc(3739, -600)
GeoName(address) == "Sevilla, Andalucia, Espana"

\* the geocoder finds the address, returns None, or raises
GeoOutcomes == {"found", "notfound", "exception"}

\* insertion-ordered dict: a sequence of [name, snap] with distinct names
Keys(d) == [i \in 1..Len(d) |-> d[i].name]
KeySet(d) == {d[i].name : i \in 1..Len(d)}
HasKey(d, k) == k \in KeySet(d)
Lookup(d, k) == d[CHOOSE i \in 1..Len(d) : d[i].name = k].snap

\* DictSet binding every entry to the one new value (a faulty variant)
DictSetShared(d, k, v) ==
    IF HasKey(d, k)
    THEN [i \in 1..Len(d) |-> [name |-> d[i].name, snap |-> v]]
    ELSE Append([i \in 1..Len(d) |-> [name |-> d[i].name, snap |-> v]],
                [name |-> k, snap |-> v])

\* DictSet appending even when the name is present (a faulty variant)
DictSetAppend(d, k, v) == Append(d, [name |-> k, snap |-> v])

\* d[k] = v
DictSet(d, k, v) ==
    IF HasKey(d, k)
    THEN [i \in 1..Len(d) |->
            IF d[i].name = k THEN [name |-> k, snap |-> v] ELSE d[i]]
    ELSE Append(d, [name |-> k, snap |-> v])

\* f"Scenario {len(st.session_state.scenarios) + 1}"
AutoNames ==
    <<"Scenario 1", "Scenario 2", "Scenario 3", "Scenario 4", "Scenario 5",
      "Scenario 6", "Scenario 7", "Scenario 8">>
AutoName(n) == AutoNames[n + 1]

\* names the user may type into the scenario name box
TypedNames == {"Scenario 2"}

-----------------------------------------------------------------------------
(* The sidebar widgets (src/main.py 28-206) *)

\* The values a user may enter.  The first value of each set is the one the
\* model starts from; the grids are coarse so that the arithmetic stays exact.
\* Orientation, strings, mounting and one loss have a second value; the
\* other inputs keep their first value.
InputDomain ==
    [azimuth        |-> {180, 0},
     p_mp_stc       |-> {500},
     n_series       |-> {2},
     n_parallel     |-> {2, 1},
     num_inv        |-> {1},
     inv_rating     |-> {R(1)},
     inv_eff_pct    |-> {R(95)},
     mount_type     |-> MountTypes,
     soiling_pct    |-> {R(0), R(10)},
     dc_pct         |-> {R(0)},
     ac_pct         |-> {R(10)},
     avail_pct      |-> {R(0)},
     years          |-> {2},
     deg_pct        |-> {R(1)}]

InputFields == DOMAIN InputDomain

\* the tilt a user may type instead of the default int(abs(lat))
TiltTyped == {0}

\* A widget without a key is identified by its arguments: when the default
\* (or the option list) it is built with changes, it is a new widget and
\* shows its default again.
InitWidgets ==
    [address        |-> DefaultAddress,
     tilt           |-> [shown |-> FALSE, dflt |-> 0, val |-> 0],
     azimuth        |-> 180,
     p_mp_stc       |-> 500,
     n_series       |-> 2,
     n_parallel     |-> 2,
     num_inv        |-> 1,
     inv_rating     |-> R(1),
     inv_eff_pct    |-> R(95),
     mount_type     |-> "Open Rack",
     soiling_pct    |-> R(0),
     dc_pct         |-> R(0),
     ac_pct         |-> R(10),
     avail_pct      |-> R(0),
     years          |-> 2,
     deg_pct        |-> R(1),
     scenario_name  |-> [shown |-> FALSE, dflt |-> "", val |-> ""],
     compare_cb     |-> [shown |-> FALSE, dflt |-> FALSE, val |-> FALSE],
     compare_sel    |-> [shown |-> FALSE, opts |-> <<>>, val |-> ""]]

\* what a keyless widget returns in this run
WidgetValue(wd, dflt) == IF wd.shown /\ wd.dflt = dflt THEN wd.val ELSE dflt

\* A faulty variant of the geocoding: the two fallback branches bind the local
\* lat/lon and remember the address but leave the session's location alone.
GeocodeNoFallback(ss, address, geo) ==
    IF Str(address) # ss.last_address
    THEN LET hit == (geo = "found")
             loc == IF hit THEN GeoCoord(address)
                    ELSE Loc(DefaultLat, DefaultLon)
         IN  [ss |-> IF hit
                     THEN [ss EXCEPT !.location = loc,
                                     !.last_address = Str(address),
                                     !.location_name = Str(GeoName(address))]
                     ELSE [ss EXCEPT !.last_address = Str(address)],
              lat |-> loc.lat, lon |-> loc.lon,
              looked_up |-> TRUE, crashed |-> FALSE,
              reported |-> IF geo = "found" THEN {}
                           ELSE IF geo = "notfound"
                           THEN {[what |-> "geocoding", cause |-> "Address not found"]}
                           ELSE {[what |-> "geocoding", cause |-> "Location lookup failed"]}]
    ELSE [ss |-> ss, lat |-> ss.location.lat, lon |-> ss.location.lon,
          looked_up |-> FALSE, crashed |-> ss.location.isNone,
          reported |-> {}]

\* Geocoding (src/main.py 32-58): the session's location after the lookup
\* branch, the local lat/lon, what was reported, and whether the lookup ran.
Geocode(ss, address, geo) ==
    IF Str(address) # ss.last_address
    THEN LET hit == (geo = "found")
             loc == IF hit THEN GeoCoord(address)
                    ELSE Loc(DefaultLat, DefaultLon)
         IN  [ss |-> [ss EXCEPT !.location = loc,
                                !.last_address = Str(address),
                                !.location_name =
                                    Str(IF hit THEN GeoName(address)
                                        ELSE DefaultLocationName)],
              lat |-> loc.lat, lon |-> loc.lon,
              looked_up |-> TRUE, crashed |-> FALSE,
              reported |-> IF geo = "found" THEN {}
                           ELSE IF geo = "notfound"
                           THEN {[what |-> "geocoding", cause |-> "Address not found"]}
                           ELSE {[what |-> "geocoding", cause |-> "Location lookup failed"]}]
    ELSE \* lat, lon = st.session_state.location: unpacking None raises
         [ss |-> ss, lat |-> ss.location.lat, lon |-> ss.location.lon,
          looked_up |-> FALSE, crashed |-> ss.location.isNone,
          reported |-> {}]

\* the live inputs of a run: the widget values and the values derived from
\* them (src/main.py 68-206)
LiveInputs(w, lat, lon) ==
    LET tilt         == WidgetValue(w.tilt, Abs(lat) \div 100)
        total_dc_kw  == Rat(w.n_series * w.n_parallel * w.p_mp_stc, 1000)
        total_ac_kw  == RMul(R(w.num_inv), w.inv_rating)
    IN  [lat            |-> lat,
         lon            |-> lon,
         tilt           |-> tilt,
         azimuth        |-> w.azimuth,
         p_mp_stc       |-> w.p_mp_stc,
         n_series       |-> w.n_series,
         n_parallel     |-> w.n_parallel,
         total_dc_kw    |-> total_dc_kw,
         num_inv        |-> w.num_inv,
         inv_rating     |-> w.inv_rating,
         inv_efficiency |-> RDiv(w.inv_eff_pct, R(100)),
         total_ac_kw    |-> total_ac_kw,
         dc_ac_ratio    |-> IF RLt(R(0), total_ac_kw)
                            THEN RDiv(total_dc_kw, total_ac_kw) ELSE R(0),
         mount_type     |-> w.mount_type,
         soiling_loss   |-> RDiv(w.soiling_pct, R(100)),
         dc_loss        |-> RDiv(w.dc_pct, R(100)),
         ac_loss        |-> RDiv(w.ac_pct, R(100)),
         avail_loss     |-> RDiv(w.avail_pct, R(100)),
         years          |-> w.years,
         deg_rate       |-> RDiv(w.deg_pct, R(100))]

\* the dict literal stored by the save button (src/main.py 217-239)
Snapshot(ss, inp) == [location |-> ss.location_name] @@ inp

\* 'selected_comparison' in st.session_state, and its value
NoSelection == [isSet |-> FALSE, name |-> ""]
Selection(k) == [isSet |-> TRUE, name |-> k]

HiddenBox == [shown |-> FALSE, dflt |-> FALSE, val |-> FALSE]
HiddenSelect == [shown |-> FALSE, opts |-> <<>>, val |-> ""]

\* A faulty variant of the clear button: the store is emptied and the
\* comparison mode is left as the checkbox set it.
ClearButtonStoreOnly(ss) == [ss EXCEPT !.scenarios = <<>>]

\* The "Clear All Scenarios" button (src/main.py 263-265)
ClearButton(ss) == [ss EXCEPT !.scenarios = <<>>, !.comparison_mode = FALSE]

\* The scenario block of the sidebar (src/main.py 243-266), given the store
\* scen1 as the save button left it.
ScenarioControls(w, ev, g, inp, scenario_name, scen1) ==
    LET block    == Len(scen1) > 0
        cbval    == WidgetValue(w.compare_cb, g.ss.comparison_mode)
        mode1    == IF block THEN cbval ELSE g.ss.comparison_mode
        selShown == block /\ mode1
        selval   == IF w.compare_sel.shown /\ w.compare_sel.opts = Keys(scen1)
                    THEN w.compare_sel.val ELSE Keys(scen1)[1]
        cleared  == block /\ ev = "clear"
        ss1      == [g.ss EXCEPT
                        !.scenarios = scen1,
                        !.comparison_mode = mode1,
                        !.selected_comparison =
                            IF selShown THEN Selection(selval)
                            ELSE g.ss.selected_comparison]
    IN  [ss |-> IF cleared THEN ClearButton(ss1) ELSE ss1,
         w |-> [w EXCEPT
                    !.tilt = [shown |-> TRUE, dflt |-> Abs(g.lat) \div 100,
                              val |-> inp.tilt],
                    !.scenario_name =
                        [shown |-> TRUE,
                         dflt |-> AutoName(Len(g.ss.scenarios)),
                         val |-> scenario_name],
                    !.compare_cb =
                        IF block
                        THEN [shown |-> TRUE, dflt |-> g.ss.comparison_mode,
                              val |-> cbval]
                        ELSE HiddenBox,
                    !.compare_sel =
                        IF selShown
                        THEN [shown |-> TRUE, opts |-> Keys(scen1),
                              val |-> selval]
                        ELSE HiddenSelect],
         inp |-> inp, rerun |-> cleared, crashed |-> FALSE,
         looked_up |-> g.looked_up,
         saved_name |-> IF ev = "save" THEN scenario_name ELSE "",
         reported |-> g.reported \cup
                      (IF ev = "save"
                       THEN {[what |-> "saved", cause |-> scenario_name]}
                       ELSE {})]

\* The save button (src/main.py 214-240) with the name the text input holds.
SaveButton(w, ev, g, inp, scenario_name) ==
    ScenarioControls(w, ev, g, inp, scenario_name,
        IF ev = "save"
        THEN DictSet(g.ss.scenarios, scenario_name, Snapshot(g.ss, inp))
        ELSE g.ss.scenarios)

\* The sidebar below the site selection (src/main.py 60-266), given the
\* geocoding outcome g and the live inputs inp.
SidebarInputs(ss, w, ev, g, inp) ==
    IF g.crashed
    THEN [ss |-> ss, w |-> w, inp |-> inp, rerun |-> FALSE,
          crashed |-> TRUE, looked_up |-> FALSE, saved_name |-> "",
          reported |-> {}]
    ELSE SaveButton(w, ev, g, inp,
            WidgetValue(w.scenario_name, AutoName(Len(g.ss.scenarios))))

\* the widgets of the sidebar after the geocoding outcome g
SidebarSite(ss, w, ev, g) ==
    SidebarInputs(ss, w, ev, g, LiveInputs(w, g.lat, g.lon))

\* One pass over the sidebar (src/main.py 28-266) for the event ev: "save"
\* and "clear" are the two buttons, any other event presses neither.
Sidebar(ss, w, ev, geo) == SidebarSite(ss, w, ev, Geocode(ss, w.address, geo))

\* st.rerun() after a clear starts the script again from the top with no
\* button pressed (src/main.py 263-266)
SidebarRerun(first, geo) ==
    IF first.rerun THEN Sidebar(first.ss, first.w, "none", geo) ELSE first

\* the sidebar of a page run
SidebarRun(ss, w, ev, geo) == SidebarRerun(Sidebar(ss, w, ev, geo), geo)

-----------------------------------------------------------------------------
(* run_full_sim and its memo (src/main.py 269-333) *)

\* What the weather service does when asked: the request fails (any
\* exception of the body is caught the same way), or it returns a year of data.
WxAnswers == {"timeout", "tmyA"}

\* the year of data: a first month without sun, then clear sky
TmyRecord(wx, h) ==
    IF h <= 2
    THEN [ghi |-> R(0), dni |-> R(0), dhi |-> R(0), temp_air |-> R(10)]
    ELSE [ghi |-> R(500), dni |-> R(500), dhi |-> R(500), temp_air |-> R(25)]

Tmy(wx) == [h \in 1..Hours |-> TmyRecord(wx, h)]

\* Stand-in for pvlib's transposition: a horizontal plane sees ghi, a tilted
\* plane sees the diffuse part plus, when it faces the sun's half of the sky,
\* the direct part.  Only its being a function of these arguments matters.
PoaGlobal(rec, tilt_angle, azimuth_angle) ==
    IF tilt_angle = 0 THEN rec.ghi
    ELSE IF azimuth_angle >= 90 /\ azimuth_angle <= 270
         THEN RAdd(rec.dhi, rec.dni)
         ELSE rec.dhi

\* return None, None, None, None, str(e)
ErrorTuple(cause) ==
    [ok |-> FALSE, error |-> cause, weather |-> <<>>, irrad |-> <<>>,
     ac_power |-> <<>>, temp_cell |-> <<>>]

\* FetchAttempts with a failed fetch tried a second time (a faulty variant)
FetchAttemptsRetry(wx) == IF wx = "timeout" THEN 2 ELSE 1

\* get_pvgis_tmy is called once in the body, outside any loop
FetchAttempts(wx) == 1

\* the body of run_full_sim: the returned tuple
\* return weather, irrad, ac_final, temp_cell
ResultTuple(weather, irrad, hour) ==
    [ok |-> TRUE, error |-> "", weather |-> weather, irrad |-> irrad,
     ac_power |-> [h \in 1..Hours |-> hour[h].ac_final],
     temp_cell |-> [h \in 1..Hours |-> hour[h].temp_cell]]

\* the cell temperature and the power pipeline on the hourly series
PowerSeries(args, weather, irrad) ==
    ResultTuple(weather, irrad,
        [h \in 1..Hours |->
            HourPipeline(irrad[h], weather[h].temp_air, args.dc_kw,
                         args.ac_limit, args.losses, args.mount, args.inv_eff)])

\* the transposition of the fetched year to the plane of the array
Transposed(args, weather) ==
    PowerSeries(args, weather,
        [h \in 1..Hours |->
            PoaGlobal(weather[h], args.tilt_angle, args.azimuth_angle)])

RunFullSimBody(args, wx) ==
    IF wx = "timeout" THEN ErrorTuple("weather fetch timed out")
    ELSE Transposed(args, Tmy(wx))

\* CacheKey made of the site alone (a faulty variant)
CacheKeyBySite(args) == [lat |-> args.lat, lon |-> args.lon]

\* st.cache_data hashes every argument of the call, the losses dict by its
\* content
CacheKey(args) == args

\* the memo is a set of [args, ret]; at most one entry per key
Cached(c, args) == \E e \in c : e.args = CacheKey(args)
CacheGet(c, args) == (CHOOSE e \in c : e.args = CacheKey(args)).ret

\* a miss of the memo: whatever the body returned, an error tuple included,
\* is stored
CacheMiss(c, args, ret, wx) ==
    [ret |-> ret, cache |-> c \cup {[args |-> CacheKey(args), ret |-> ret]},
     fetches |-> FetchAttempts(wx)]

\* @st.cache_data: the body runs only for arguments not seen before
RunFullSim(c, args, wx) ==
    IF Cached(c, args)
    THEN [ret |-> CacheGet(c, args), cache |-> c, fetches |-> 0]
    ELSE CacheMiss(c, args, RunFullSimBody(args, wx), wx)

\* the arguments of the primary call (src/main.py 336-353)
SimArgs(inp) ==
    [lat |-> inp.lat, lon |-> inp.lon, dc_kw |-> inp.total_dc_kw,
     ac_limit |-> inp.total_ac_kw,
     losses |-> [soiling |-> inp.soiling_loss, dc |-> inp.dc_loss,
                 ac |-> inp.ac_loss, avail |-> inp.avail_loss],
     mount |-> inp.mount_type, tilt_angle |-> inp.tilt,
     azimuth_angle |-> inp.azimuth, inv_eff |-> inp.inv_efficiency]

-----------------------------------------------------------------------------
(* Float division: numpy and pandas return inf or nan for a zero divisor *)

FNum(v) == [kind |-> "num", v |-> v]
FInf == [kind |-> "inf", v |-> R(0)]
FNan == [kind |-> "nan", v |-> R(0)]

\* a / b on two finite values
FDiv(a, b) ==
    IF RIsZero(b) THEN (IF RIsZero(a) THEN FNan ELSE FInf) ELSE FNum(RDiv(a, b))

\* x - y and x / y and x * 100 on values that may already be inf or nan
FSubF(x, y) ==
    IF x.kind = "num" /\ y.kind = "num" THEN FNum(RSub(x.v, y.v))
    ELSE IF x.kind = "nan" \/ y.kind = "nan" \/ x.kind = y.kind THEN FNan
    ELSE FInf
FDivF(x, y) ==
    IF x.kind = "num" /\ y.kind = "num" THEN FDiv(x.v, y.v)
    ELSE IF x.kind = "nan" \/ y.kind = "nan" \/ x.kind = y.kind THEN FNan
    ELSE IF x.kind = "inf" THEN FInf
    ELSE FNum(R(0))
FTimes100(x) == IF x.kind = "num" THEN FNum(RMul(x.v, R(100))) ELSE x

-----------------------------------------------------------------------------
(* The page below the sidebar (src/main.py 335-534) *)

\* the script's names for the two result tuples
Unbound ==
    [weather |-> <<>>, irrad |-> <<>>, ac_power |-> <<>>, temp_cell |-> <<>>,
     comp_weather |-> <<>>, comp_irrad |-> <<>>, comp_ac_power |-> <<>>,
     comp_temp_cell |-> <<>>]

\* weather, irrad, ac_power, temp_cell = result
BindPrimary(ns, result) ==
    [ns EXCEPT !.weather = result.weather, !.irrad = result.irrad,
               !.ac_power = result.ac_power, !.temp_cell = result.temp_cell]

\* BindComparison (a faulty variant): the comparison tuple is unpacked into the
\* primary run's names
BindComparisonClobber(ns, comp_result) ==
    [ns EXCEPT !.weather = comp_result.weather, !.irrad = comp_result.irrad,
               !.ac_power = comp_result.ac_power,
               !.temp_cell = comp_result.temp_cell,
               !.comp_weather = comp_result.weather,
               !.comp_irrad = comp_result.irrad,
               !.comp_ac_power = comp_result.ac_power,
               !.comp_temp_cell = comp_result.temp_cell]

\* comp_weather, comp_irrad, comp_ac_power, comp_temp_cell = comp_result
BindComparison(ns, comp_result) ==
    [ns EXCEPT !.comp_weather = comp_result.weather,
               !.comp_irrad = comp_result.irrad,
               !.comp_ac_power = comp_result.ac_power,
               !.comp_temp_cell = comp_result.temp_cell]

\* if result[0] is None: st.error(...); st.stop()
Halts(result) == ~result.ok

\* the arguments of the comparison call (src/main.py 376-389)
CompArgs(sc) ==
    [lat |-> sc.lat, lon |-> sc.lon, dc_kw |-> sc.total_dc_kw,
     ac_limit |-> sc.total_ac_kw,
     losses |-> [soiling |-> sc.soiling_loss, dc |-> sc.dc_loss,
                 ac |-> sc.ac_loss, avail |-> sc.avail_loss],
     mount |-> sc.mount_type, tilt_angle |-> sc.tilt,
     azimuth_angle |-> sc.azimuth, inv_eff |-> sc.inv_efficiency]

\* (y / (poa * dc)) * 100 if (poa * dc) > 0 else 0
PrVal(y1_yield, total_poa, dc_kw) ==
    IF RLt(R(0), RMul(total_poa, dc_kw))
    THEN RMul(RDiv(y1_yield, RMul(total_poa, dc_kw)), R(100))
    ELSE R(0)

\* calendar months of the series: two hourly records to a month
MonthOf(h) == (h + 1) \div 2
NMonths == MonthOf(Hours)

RECURSIVE MonthSum(_, _, _)
MonthSum(series, m, h) ==
    IF h = 0 THEN R(0)
    ELSE RAdd(MonthSum(series, m, h - 1),
              IF MonthOf(h) = m THEN series[h] ELSE R(0))

\* df_m: resample('M').sum() and the derived PR column (src/main.py 524-534)
MonthlyTable(ns, dc_kw) ==
    [m \in 1..NMonths |->
        LET ghi    == MonthSum([h \in 1..Hours |-> ns.weather[h].ghi], m, Hours)
            poa    == MonthSum(ns.irrad, m, Hours)
            energy == MonthSum(ns.ac_power, m, Hours)
        IN  [GHI |-> ghi, POA |-> poa, Energy |-> energy,
             PR |-> FTimes100(FDiv(energy, RMul(RDiv(poa, R(1000)), dc_kw)))]]

\* the KPI row of the active run (src/main.py 420-423, 435-439, 516-519)
PrimaryKpis(ns, inp) ==
    LET total_poa == RDiv(RSum(ns.irrad), R(1000))
        y1_yield  == RSum(ns.ac_power)
    IN  [total_poa |-> total_poa, y1_yield |-> y1_yield,
         pr_val |-> FNum(PrVal(y1_yield, total_poa, inp.total_dc_kw)),
         spec_yield |-> FDiv(y1_yield, inp.total_dc_kw)]

\* comparison_results (src/main.py 394-415)
ComparisonResults(ns, sc, name) ==
    LET comp_total_poa == RDiv(RSum(ns.comp_irrad), R(1000))
        comp_y1_yield  == RSum(ns.comp_ac_power)
    IN  [present |-> TRUE, name |-> name, scenario |-> sc,
         total_poa |-> comp_total_poa, y1_yield |-> comp_y1_yield,
         pr_val |-> PrVal(comp_y1_yield, comp_total_poa, sc.total_dc_kw)]

NoComparisonResults ==
    [present |-> FALSE, name |-> "", scenario |-> <<>>, total_poa |-> R(0),
     y1_yield |-> R(0), pr_val |-> R(0)]

\* the deltas shown beside the compared scenario (src/main.py 452-479)
ComparisonDeltas(kpi, cr) ==
    LET spec_yield == FDiv(cr.y1_yield, cr.scenario.total_dc_kw)
    IN  [shown |-> TRUE,
         yield_diff |-> FTimes100(FDiv(RSub(cr.y1_yield, kpi.y1_yield),
                                       kpi.y1_yield)),
         spec_yield |-> spec_yield,
         spec_diff  |-> FTimes100(FDivF(FSubF(spec_yield, kpi.spec_yield),
                                        kpi.spec_yield)),
         pr_diff    |-> FSubF(FNum(cr.pr_val), kpi.pr_val),
         poa_diff   |-> FTimes100(FDiv(RSub(cr.total_poa, kpi.total_poa),
                                       kpi.total_poa))]

NoDeltas ==
    [shown |-> FALSE, yield_diff |-> FNum(R(0)), spec_yield |-> FNum(R(0)),
     spec_diff |-> FNum(R(0)), pr_diff |-> FNum(R(0)), poa_diff |-> FNum(R(0))]

NoKpis ==
    [total_poa |-> R(0), y1_yield |-> R(0), pr_val |-> FNum(R(0)),
     spec_yield |-> FNum(R(0))]

\* whether the comparison block is entered (src/main.py 372)
ComparisonEntered(ss) == ss.comparison_mode /\ ss.selected_comparison.isSet

NoView ==
    [status |-> "none", event |-> "none", saved_name |-> "",
     looked_up |-> FALSE, reported |-> {}, inputs |-> <<>>,
     sim_called |-> FALSE, primary |-> ErrorTuple(""), primary_hit |-> FALSE,
     primary_fetches |-> 0,
     comp_entered |-> FALSE, comp_name |-> "", comp_ret |-> ErrorTuple(""),
     comp_fetches |-> 0, ns |-> Unbound, kpi |-> NoKpis, monthly |-> <<>>,
     comparison_results |-> NoComparisonResults, deltas |-> NoDeltas,
     exports |-> FALSE, charts |-> FALSE]

\* what a run that reached the primary call has recorded (src/main.py 343-353)
PrimaryView(sb, c, call) ==
    [NoView EXCEPT !.reported = sb.reported, !.inputs = sb.inp,
                   !.saved_name = sb.saved_name,
                   !.looked_up = sb.looked_up,
                   !.sim_called = TRUE,
                   !.primary = call.ret,
                   !.primary_hit = Cached(c, SimArgs(sb.inp)),
                   !.primary_fetches = call.fetches]

\* The KPI row, the comparison columns and the monthly table (src/main.py
\* 418-534), with the export buttons and the charts below them.
Display(base, c, ns, cr, kpi, dc_kw) ==
    [cache |-> c,
     view |-> [base EXCEPT
                 !.status = "shown",
                 !.reported = base.reported \cup
                     {[what |-> "simulation", cause |-> "complete"]},
                 !.ns = ns,
                 !.kpi = kpi,
                 !.monthly = MonthlyTable(ns, dc_kw),
                 !.comparison_results = cr,
                 !.deltas = IF cr.present THEN ComparisonDeltas(kpi, cr)
                            ELSE NoDeltas,
                 !.exports = TRUE,
                 !.charts = TRUE]]

\* the names bound when the display starts
DisplayRun(base, c, ns, cr) ==
    Display(base, c, ns, cr, PrimaryKpis(ns, base.inputs),
            base.inputs.total_dc_kw)

\* comparison_results and the names bound by the comparison block
ComparisonBound(base, c, ns1, sc, name, ok) ==
    DisplayRun(base, c, ns1,
               IF ok THEN ComparisonResults(ns1, sc, name)
               ELSE NoComparisonResults)

\* if comp_result[0] is not None: ... (src/main.py 391-415); there is no
\* else branch
ComparisonOutcome(base, ns, sc, name, ccall) ==
    ComparisonBound(
        [base EXCEPT !.comp_entered = TRUE, !.comp_name = name,
                     !.comp_ret = ccall.ret, !.comp_fetches = ccall.fetches],
        ccall.cache,
        IF ccall.ret.ok THEN BindComparison(ns, ccall.ret) ELSE ns,
        sc, name, ccall.ret.ok)

\* the comparison call (src/main.py 373-389) on the stored scenario sc
ComparisonCall(base, c, ns, sc, name, wxC) ==
    ComparisonOutcome(base, ns, sc, name, RunFullSim(c, CompArgs(sc), wxC))

\* The comparison block (src/main.py 371-415) of a run whose primary call
\* succeeded.
ComparisonRun(ss, base, c, ns, wxC) ==
    IF ~ComparisonEntered(ss)
    THEN ComparisonBound(base, c, ns, <<>>, "", FALSE)
    ELSE IF ~HasKey(ss.scenarios, ss.selected_comparison.name)
    THEN \* comp_scenario = st.session_state.scenarios[...]: KeyError
         [cache |-> c,
          view |-> [base EXCEPT !.status = "crashed", !.comp_entered = TRUE,
                                !.comp_name = ss.selected_comparison.name]]
    ELSE ComparisonCall(base, c, ns,
                        Lookup(ss.scenarios, ss.selected_comparison.name),
                        ss.selected_comparison.name, wxC)

\* the error check after the primary call (src/main.py 356-368)
CheckResult(sb, base, call, wxC) ==
    IF Halts(call.ret)
    THEN [cache |-> call.cache,
          view |-> [base EXCEPT
                      !.status = "halted",
                      !.reported = base.reported \cup
                          {[what |-> "simulation", cause |-> call.ret.error]}]]
    ELSE ComparisonRun(sb.ss, base, call.cache,
                       BindPrimary(Unbound, call.ret), wxC)

\* the script from the primary call on, given what the call returned
MainCall(sb, c, call, wxC) ==
    CheckResult(sb, PrimaryView(sb, c, call), call, wxC)

\* The script from the primary call to the end (src/main.py 343-841), given
\* the sidebar's outcome sb, the memo c, what the primary call returned and
\* what the weather service would answer to the comparison call.
Main(sb, c, call, wxC) ==
    IF sb.crashed
    THEN [cache |-> c, view |-> [NoView EXCEPT !.status = "crashed"]]
    ELSE MainCall(sb, c, call, wxC)

-----------------------------------------------------------------------------
(* The annual sums and the two charts below them (src/main.py 420-423,     *)
(* 753-798), on a weather year given hour by hour                          *)

RAbs(a) == [n |-> Abs(a.n), d |-> a.d]

RECURSIVE RPow(_, _)
RPow(a, k) == IF k = 0 THEN R(1) ELSE RMul(RPow(a, k - 1), a)

\* a plant of one or two megawatts: DC capacity in kWp, AC limit in kW
YearDcGrid == {R(1000), R(2000)}
YearAcGrid == {R(800), R(2000)}
YearLossGrid == {R(0), Rat(1, 10)}

\* The configurations of a year.  dc_kw_more is a second DC capacity, not
\* smaller than dc_kw, run on the same weather with everything else equal.
YearConfigs ==
    {c \in [dc_kw : YearDcGrid, dc_kw_more : YearDcGrid,
            ac_limit : YearAcGrid,
            losses : [soiling : YearLossGrid, dc : {R(0)}, ac : YearLossGrid,
                      avail : YearLossGrid],
            mount : {"Open Rack"}, inv_eff : {Rat(19, 20), R(1)}] :
        RLe(c.dc_kw, c.dc_kw_more)}

\* the analysis period and the degradation rate a user may enter
YearsGrid == 1..MaxYears
DegRateGrid == {R(0), Rat(1, 5)}

NoWaterfall ==
    [shown |-> FALSE, theo_mwh |-> R(0), loss_temp |-> R(0),
     loss_soil |-> R(0), loss_dc |-> R(0), loss_inv |-> R(0),
     loss_ac |-> R(0), loss_avail |-> R(0), net_total |-> R(0),
     net_text |-> R(0)]

NoForecast ==
    [shown |-> FALSE, years |-> 0, deg_rate |-> R(0), y_list |-> <<>>,
     deg_data |-> <<>>, cumulative_mwh |-> R(0)]

YearIdle ==
    [cfg |-> [dc_kw |-> R(1000), dc_kw_more |-> R(1000), ac_limit |-> R(800),
              losses |-> [soiling |-> R(0), dc |-> R(0), ac |-> R(0),
                          avail |-> R(0)],
              mount |-> "Open Rack", inv_eff |-> R(1)],
     weather |-> <<>>, ran |-> FALSE, total_poa |-> R(0), y1_yield |-> R(0),
     y1_yield_more |-> R(0), waterfall |-> NoWaterfall,
     forecast |-> NoForecast]

\* ac_final of run_full_sim on the hourly series, for the DC capacity dc_kw
YearAcFinal(cfg, weather, dc_kw) ==
    [h \in 1..Len(weather) |->
        HourPipeline(weather[h].poa, weather[h].temp_air, dc_kw, cfg.ac_limit,
                     cfg.losses, cfg.mount, cfg.inv_eff).ac_final]

\* total_poa = irrad['poa_global'].sum() / 1000
TotalPoa(weather) ==
    RDiv(RSum([h \in 1..Len(weather) |-> weather[h].poa]), R(1000))

\* the bars of the loss waterfall, in MWh (src/main.py 754-760)
WaterfallAc(theo_mwh, loss_temp, loss_soil, loss_dc, loss_inv, y1_mwh, losses) ==
    [shown |-> TRUE, theo_mwh |-> theo_mwh, loss_temp |-> loss_temp,
     loss_soil |-> loss_soil, loss_dc |-> loss_dc, loss_inv |-> loss_inv,
     loss_ac |-> RMul(RDiv(y1_mwh, OneMinus(losses.ac)), losses.ac),
     loss_avail |-> RMul(RDiv(y1_mwh, OneMinus(losses.avail)), losses.avail),
     net_total |-> R(0), net_text |-> y1_mwh]

WaterfallInv(theo_mwh, loss_temp, loss_soil, loss_dc, y1_mwh, losses, inv_efficiency) ==
    WaterfallAc(theo_mwh, loss_temp, loss_soil, loss_dc,
        RMul(RSub(RSub(RSub(theo_mwh, loss_temp), loss_soil), loss_dc),
             OneMinus(inv_efficiency)),
        y1_mwh, losses)

WaterfallDc(theo_mwh, loss_temp, loss_soil, y1_mwh, losses, inv_efficiency) ==
    WaterfallInv(theo_mwh, loss_temp, loss_soil,
        RMul(RSub(RSub(theo_mwh, loss_temp), loss_soil), losses.dc),
        y1_mwh, losses, inv_efficiency)

WaterfallSoil(theo_mwh, loss_temp, y1_mwh, losses, inv_efficiency) ==
    WaterfallDc(theo_mwh, loss_temp,
        RMul(RSub(theo_mwh, loss_temp), losses.soiling),
        y1_mwh, losses, inv_efficiency)

\* loss_temp = theo_mwh * 0.08
WaterfallTemp(theo_mwh, y1_mwh, losses, inv_efficiency) ==
    WaterfallSoil(theo_mwh, RMul(theo_mwh, Rat(8, 100)), y1_mwh, losses,
                  inv_efficiency)

\* the "total" bar of go.Waterfall: the first bar plus the relative bars
WaterfallTotal(w) ==
    RSub(RSub(RSub(RSub(RSub(RSub(w.theo_mwh, w.loss_temp), w.loss_soil),
                        w.loss_dc), w.loss_inv), w.loss_ac), w.loss_avail)

WaterfallBars(w) == [w EXCEPT !.net_total = WaterfallTotal(w)]

\* fig_water: theo_mwh = (total_poa * total_dc_kw) / 1000 and the six losses
LossWaterfall(total_poa, total_dc_kw, y1_yield, losses, inv_efficiency) ==
    WaterfallBars(
        WaterfallTemp(RDiv(RMul(total_poa, total_dc_kw), R(1000)),
                      RDiv(y1_yield, R(1000)), losses, inv_efficiency))

\* y_list = list(range(1, int(years) + 1))
YList(years) == [i \in 1..years |-> i]

\* DegData with the first year already degraded (a faulty variant)
DegDataFromFirstYear(y1_yield, years, deg_rate) ==
    [i \in 1..years |->
        RMul(RDiv(y1_yield, R(1000)), RPow(OneMinus(deg_rate), i))]

\* deg_data = [(y1_yield/1000) * (1 - deg_rate)**y for y in range(len(y_list))]
DegData(y1_yield, years, deg_rate) ==
    [i \in 1..years |->
        RMul(RDiv(y1_yield, R(1000)), RPow(OneMinus(deg_rate), i - 1))]

ForecastOf(years, deg_rate, deg_data) ==
    [shown |-> TRUE, years |-> years, deg_rate |-> deg_rate,
     y_list |-> YList(years), deg_data |-> deg_data,
     cumulative_mwh |-> RSum(deg_data)]

\* fig_deg and cumulative_mwh = sum(deg_data) (src/main.py 778-798)
DegradationForecast(y1_yield, years, deg_rate) ==
    ForecastOf(years, deg_rate, DegData(y1_yield, years, deg_rate))

YearUnchanged == UNCHANGED <<sim_in, sim_out>> /\ SessionUnchanged

\* the weather service hands over the next hourly record of the year
FetchHour ==
    /\ ~year.ran
    /\ Len(year.weather) < YearHours
    /\ \E p \in PoaGrid :
         year' = [year EXCEPT
                    !.weather = Append(@, [poa |-> p, temp_air |-> R(25)])]
    /\ YearUnchanged

\* run_full_sim on the year, and the annual sums of lines 421-422
RunYear ==
    /\ ~year.ran
    /\ Len(year.weather) > 0
    /\ year' = [year EXCEPT
                  !.ran = TRUE,
                  !.total_poa = TotalPoa(year.weather),
                  !.y1_yield =
                      RSum(YearAcFinal(year.cfg, year.weather, year.cfg.dc_kw)),
                  !.y1_yield_more =
                      RSum(YearAcFinal(year.cfg, year.weather,
                                       year.cfg.dc_kw_more))]
    /\ YearUnchanged

\* the loss waterfall is drawn
DrawWaterfall ==
    /\ year.ran
    /\ ~year.waterfall.shown
    /\ year' = [year EXCEPT
                  !.waterfall =
                      LossWaterfall(year.total_poa, year.cfg.dc_kw,
                                    year.y1_yield, year.cfg.losses,
                                    year.cfg.inv_eff)]
    /\ YearUnchanged

\* the degradation forecast is drawn for the period and rate entered
DrawForecast ==
    /\ year.ran
    /\ ~year.forecast.shown
    /\ \E n \in YearsGrid, r \in DegRateGrid :
         year' = [year EXCEPT
                    !.forecast = DegradationForecast(year.y1_yield, n, r)]
    /\ YearUnchanged

-----------------------------------------------------------------------------
(* The session: one action per user interaction, each a whole page run *)

InitSession ==
    [location |-> NoLocation, last_address |-> NoneStr,
     location_name |-> NoneStr, scenarios |-> <<>>,
     comparison_mode |-> FALSE, selected_comparison |-> NoSelection]

\* the geocoder is asked only when the address differs from the last one
GeoChoices(ss, w) ==
    IF Str(w.address) # ss.last_address
    THEN (IF w.address = "Atlantis" THEN {"notfound", "exception"}
          ELSE GeoOutcomes)
    ELSE {"found"}

\* the weather service is asked only on a miss of the memo
WxChoices(c, args) == IF Cached(c, args) THEN {"tmyA"} ELSE WxAnswers

\* whether the run reaches the comparison call
ReachesComparison(sb, result) ==
    /\ ~sb.crashed
    /\ result.ok
    /\ ComparisonEntered(sb.ss)
    /\ HasKey(sb.ss.scenarios, sb.ss.selected_comparison.name)

\* what a page run leaves behind
PageEffect(sb, ev, m) ==
    /\ session_state' = sb.ss
    /\ widgets' = sb.w
    /\ cache' = m.cache
    /\ view' = [m.view EXCEPT !.event = ev]

\* the answers the weather service may give to the comparison call
ComparisonWxChoices(sb, p) ==
    IF ReachesComparison(sb, p.ret)
    THEN WxChoices(p.cache,
                   CompArgs(Lookup(sb.ss.scenarios,
                                   sb.ss.selected_comparison.name)))
    ELSE {"tmyA"}

\* the page after the primary call, for every answer to the comparison call
PageAfterCall(sb, ev, call) ==
    \E wxC \in ComparisonWxChoices(sb, call) :
       PageEffect(sb, ev, Main(sb, cache, call, wxC))

\* the page below the sidebar, for every answer to the primary call
PageBody(sb, ev) ==
    \E wxP \in WxChoices(cache, SimArgs(sb.inp)) :
       PageAfterCall(sb, ev, RunFullSim(cache, SimArgs(sb.inp), wxP))

\* a page run with the widget values w1 and the button event ev
PageRun(w1, ev) ==
    /\ nruns < MaxRuns
    /\ \E geo \in GeoChoices(session_state, w1) :
          PageBody(SidebarRun(session_state, w1, ev, geo), ev)
    /\ nruns' = nruns + 1
    /\ UNCHANGED <<sim_in, sim_out, year>>

\* the page is opened, or re-run with nothing changed
Rerun == PageRun(widgets, "none")

\* the user types another site address
ChangeAddress ==
    /\ nruns > 0
    /\ \E a \in Addresses \ {widgets.address} :
         PageRun([widgets EXCEPT !.address = a], "none")

\* the user changes one of the number inputs or the mounting type
EditInput ==
    /\ nruns > 0
    /\ \E f \in InputFields :
         \E v \in InputDomain[f] \ {widgets[f]} :
            PageRun([widgets EXCEPT ![f] = v], "none")

\* the user types a tilt
EditTilt ==
    /\ nruns > 0
    /\ \E t \in TiltTyped \ {widgets.tilt.val} :
         PageRun([widgets EXCEPT !.tilt.val = t], "none")

\* the user types a scenario name
TypeScenarioName ==
    /\ nruns > 0
    /\ \E n \in TypedNames \ {widgets.scenario_name.val} :
         PageRun([widgets EXCEPT !.scenario_name.val = n], "none")

\* the user presses "Save Current Scenario"
SaveScenario ==
    /\ nruns > 0
    /\ PageRun(widgets, "save")

\* the user ticks or unticks "Enable Comparison Mode"
ToggleComparison ==
    /\ widgets.compare_cb.shown
    /\ PageRun([widgets EXCEPT !.compare_cb.val = ~widgets.compare_cb.val], "none")

\* the user picks a scenario in "Compare with:"
SelectComparison ==
    /\ widgets.compare_sel.shown
    /\ \E k \in {widgets.compare_sel.opts[i] :
                    i \in 1..Len(widgets.compare_sel.opts)}
               \ {widgets.compare_sel.val} :
         PageRun([widgets EXCEPT !.compare_sel.val = k], "none")

\* the user presses "Clear All Scenarios"
ClearAll ==
    /\ widgets.compare_cb.shown
    /\ PageRun(widgets, "clear")

Init ==
    /\ session_state = InitSession
    /\ widgets = InitWidgets
    /\ cache = {}
    /\ view = NoView
    /\ nruns = 0
    /\ sim_in = SimIdleIn
    /\ sim_out = SimIdle
    /\ year = YearIdle

Next ==
    \/ Rerun
    \/ ChangeAddress
    \/ EditInput
    \/ EditTilt
    \/ TypeScenarioName
    \/ SaveScenario
    \/ ToggleComparison
    \/ SelectComparison
    \/ ClearAll

Spec == Init /\ [][Next]_vars

\* the hourly pipeline applied to every input of the grid
SimInit ==
    /\ session_state = InitSession
    /\ widgets = InitWidgets
    /\ cache = {}
    /\ view = NoView
    /\ nruns = 0
    /\ sim_in \in SimInputs
    /\ sim_out = SimIdle
    /\ year = YearIdle

SimNext == SimulateHour \/ NextHour

SimSpec == SimInit /\ [][SimNext]_vars

\* a weather year for every configuration of the grid
YearInit ==
    /\ session_state = InitSession
    /\ widgets = InitWidgets
    /\ cache = {}
    /\ view = NoView
    /\ nruns = 0
    /\ sim_in = SimIdleIn
    /\ sim_out = SimIdle
    /\ \E c \in YearConfigs : year = [YearIdle EXCEPT !.cfg = c]

YearNext == FetchHour \/ RunYear \/ DrawWaterfall \/ DrawForecast

YearSpec == YearInit /\ [][YearNext]_vars

-----------------------------------------------------------------------------
(* Properties *)

Scenarios == session_state.scenarios

\* the run that just ended saved under the name k
SavedUnder(k) == view'.event = "save" /\ view'.saved_name = k

\* C1: once a scenario is stored under a name, every page run that is
\* neither a save under that name nor a clear-all leaves the name in the
\* store with every stored value as it was, whatever the live inputs become.
C1_SnapshotStable ==
    [][\A k \in KeySet(Scenarios) :
          (view'.event # "clear" /\ ~SavedUnder(k))
          => /\ HasKey(Scenarios', k)
             /\ Lookup(Scenarios', k) = Lookup(Scenarios, k)]_vars

\* C1 witness: a page has been shown whose live inputs differ from a stored
\* scenario, so an edit followed the save and the stored values stayed.
C1_Witness ==
    /\ view.status = "shown"
    /\ view.event = "none"
    /\ \E i \in 1..Len(Scenarios) :
          /\ Scenarios[i].snap.azimuth # view.inputs.azimuth
          /\ Scenarios[i].snap.total_dc_kw # view.inputs.total_dc_kw

\* C2: in a run that enters the comparison block, the names of the primary
\* run still hold the primary run's tuple when the KPI row is computed, the
\* live inputs are the ones the widgets hold, the KPI row is the one the
\* primary tuple alone gives, and the scenario read is the one stored.
C2_ComparisonLeavesPrimary ==
    (view.status = "shown" /\ view.comp_entered)
    => /\ view.ns.weather = view.primary.weather
       /\ view.ns.irrad = view.primary.irrad
       /\ view.ns.ac_power = view.primary.ac_power
       /\ view.ns.temp_cell = view.primary.temp_cell
       /\ view.inputs = LiveInputs(widgets, session_state.location.lat,
                                   session_state.location.lon)
       /\ view.kpi = PrimaryKpis(BindPrimary(Unbound, view.primary), view.inputs)
       /\ view.comparison_results.present
          => view.comparison_results.scenario = Lookup(Scenarios, view.comp_name)

\* C2 witness: a comparison ran to the end on a scenario whose hourly output
\* differs from the primary run's.
C2_Witness ==
    /\ view.status = "shown"
    /\ view.comparison_results.present
    /\ view.ns.comp_ac_power # view.ns.ac_power
    /\ view.ns.ac_power = view.primary.ac_power

\* C3: a page run other than a clear-all removes no name; a save under a
\* stored name replaces that entry in place and nothing else; a save under
\* a new name appends one entry; any other run leaves the store as it is.
C3_StoreLifecycle ==
    [][/\ view'.event # "clear" => KeySet(Scenarios) \subseteq KeySet(Scenarios')
       /\ (view'.event = "save" /\ HasKey(Scenarios, view'.saved_name))
          => /\ Len(Scenarios') = Len(Scenarios)
             /\ \A i \in 1..Len(Scenarios) :
                   /\ Scenarios'[i].name = Scenarios[i].name
                   /\ Scenarios[i].name # view'.saved_name
                      => Scenarios'[i] = Scenarios[i]
       /\ (view'.event = "save" /\ ~HasKey(Scenarios, view'.saved_name))
          => /\ Len(Scenarios') = Len(Scenarios) + 1
             /\ \A i \in 1..Len(Scenarios) : Scenarios'[i] = Scenarios[i]
             /\ Scenarios'[Len(Scenarios')].name = view'.saved_name
       /\ view'.event \notin {"save", "clear"} => Scenarios' = Scenarios]_vars

\* C3 witness: the second save of a session went under the name the first
\* save used, and the store still holds one entry.
C3_Witness ==
    /\ view.event = "save"
    /\ view.saved_name = "Scenario 2"
    /\ Len(Scenarios) = 1
    /\ widgets.scenario_name.dflt = "Scenario 2"

C5_SecondaryFailureReported ==
    (view.sim_called /\ view.primary.ok /\ view.comp_entered /\ ~view.comp_ret.ok
        /\ view.status # "crashed")
    => /\ view.status = "shown"
       /\ view.exports /\ view.charts
       /\ ~view.comparison_results.present
       /\ \E r \in view.reported :
             r.what = "comparison" /\ r.cause = view.comp_ret.error

\* the delta the specification prescribes for a KPI: relative, undefined at zero
Undefined == [kind |-> "undefined", v |-> R(0)]
RelativeDelta(other, current) ==
    IF RIsZero(current) THEN Undefined
    ELSE FNum(RMul(RDiv(RSub(other, current), current), R(100)))

\* C6 (as the specification states it): every delta shown beside the compared scenario is
\* (other - current) / current * 100, and undefined when current is 0.
C6_RelativeDeltas ==
    view.deltas.shown
    => /\ view.deltas.yield_diff =
              RelativeDelta(view.comparison_results.y1_yield, view.kpi.y1_yield)
       /\ view.deltas.spec_diff =
              RelativeDelta(view.deltas.spec_yield.v, view.kpi.spec_yield.v)
       /\ view.deltas.pr_diff =
              RelativeDelta(view.comparison_results.pr_val, view.kpi.pr_val.v)
       /\ view.deltas.poa_diff =
              RelativeDelta(view.comparison_results.total_poa, view.kpi.total_poa)

\* C7 (as the specification states it): a KPI whose divisor is zero is reported as undefined and
\* no division by zero takes place: in the KPI row and in the monthly table.
C7_ZeroDivisorUndefined ==
    view.status = "shown"
    => /\ RIsZero(RMul(view.kpi.total_poa, view.inputs.total_dc_kw))
          => view.kpi.pr_val = Undefined
       /\ RIsZero(view.inputs.total_dc_kw) => view.kpi.spec_yield = Undefined
       /\ view.kpi.spec_yield.kind \notin {"inf", "nan"}
       /\ \A m \in 1..Len(view.monthly) :
             /\ RIsZero(RMul(view.monthly[m].POA, view.inputs.total_dc_kw))
                => view.monthly[m].PR = Undefined
             /\ view.monthly[m].PR.kind \notin {"inf", "nan"}

\* C8 (as the specification states it): in every hour ac_final <= dc_raw.
C8_NeverAboveDcRaw == sim_out.done => RLe(sim_out.ac_final, sim_out.dc_raw)

\* C8 (amended): in every hour with dc_raw >= 0, ac_final <= dc_raw; in an
\* hour with dc_raw < 0 (negative irradiance), dc_raw <= ac_final <= 0.
C8_LossesNeverAmplify ==
    sim_out.done
    => /\ RLe(R(0), sim_out.dc_raw) => RLe(sim_out.ac_final, sim_out.dc_raw)
       /\ RLt(sim_out.dc_raw, R(0))
          => /\ RLe(sim_out.dc_raw, sim_out.ac_final)
             /\ RLe(sim_out.ac_final, R(0))

\* C8 witness: an hour with positive dc_raw, a loss on each side and an
\* output strictly below dc_raw.
C8_Witness ==
    /\ sim_out.done
    /\ RLt(R(0), sim_out.dc_raw)
    /\ sim_in.losses.soiling # R(0)
    /\ sim_in.losses.ac # R(0)
    /\ RLt(sim_out.ac_final, sim_out.dc_raw)

\* C9: the inverter output is min(dc_net * inv_eff, ac_limit): never above
\* the limit, the limit itself whenever dc_net * inv_eff reaches it, and the
\* AC-side losses come after, so ac_final <= ac_limit * (1-ac) * (1-avail).
C9_HardClip ==
    sim_out.done
    => /\ RLe(sim_out.ac_power, sim_in.ac_limit)
       /\ RLe(sim_in.ac_limit, sim_out.ac_in) => sim_out.ac_power = sim_in.ac_limit
       /\ RLe(sim_out.ac_in, sim_in.ac_limit) => sim_out.ac_power = sim_out.ac_in
       /\ sim_out.ac_in = RMul(sim_out.dc_net, sim_in.inv_eff)
       /\ RLe(sim_out.ac_final,
              RMul(RMul(sim_in.ac_limit, OneMinus(sim_in.losses.ac)),
                   OneMinus(sim_in.losses.avail)))

\* C9 witness: an hour in which dc_net * inv_eff exceeds the limit and the
\* output is the limit.
C9_Witness ==
    /\ sim_out.done
    /\ RLt(sim_in.ac_limit, sim_out.ac_in)
    /\ sim_out.ac_power = sim_in.ac_limit
    /\ sim_in.losses.ac # R(0)

\* C10 (as the specification states it): an hour with zero or negative plane-of-array irradiance
\* gives exactly zero output.
C10_NoSunNoPower ==
    (sim_out.done /\ RLe(sim_in.poa, R(0))) => RIsZero(sim_out.ac_final)

\* a and b agree within 1e-6 relative to b
WithinTolerance(a, b) ==
    \/ a = b
    \/ /\ ~RIsZero(b)
       /\ RDiv(RAbs(RSub(a, b)), RAbs(b)).d
             \div RDiv(RAbs(RSub(a, b)), RAbs(b)).n >= 1000000

\* C11 (as the specification states it): the theoretical energy minus the six
\* deductions of the waterfall equals the reported net first-year yield,
\* within 1e-6 relative.
C11_WaterfallRoundTrip ==
    year.waterfall.shown
    => WithinTolerance(WaterfallTotal(year.waterfall), year.waterfall.net_text)

\* the sum of the first k entries, by a fold of its own
RECURSIVE Cumulated(_, _)
Cumulated(data, k) == IF k = 0 THEN R(0) ELSE RAdd(data[k], Cumulated(data, k - 1))

\* C12: the forecast has exactly `years` entries, the first is the undegraded
\* first-year yield, each next entry is the one before times (1 - deg_rate),
\* the entries never increase when the yield is not negative, and the
\* cumulative value is the sum of exactly those entries.
C12_DegradationForecast ==
    year.forecast.shown
    => /\ Len(year.forecast.deg_data) = year.forecast.years
       /\ Len(year.forecast.y_list) = year.forecast.years
       /\ year.forecast.years >= 1
       /\ year.forecast.deg_data[1] = RDiv(year.y1_yield, R(1000))
       /\ \A y \in 1..(year.forecast.years - 1) :
             /\ year.forecast.deg_data[y + 1] =
                    RMul(year.forecast.deg_data[y],
                         OneMinus(year.forecast.deg_rate))
             /\ RLe(R(0), year.y1_yield)
                => RLe(year.forecast.deg_data[y + 1], year.forecast.deg_data[y])
       /\ year.forecast.cumulative_mwh =
              Cumulated(year.forecast.deg_data, year.forecast.years)

\* C12 witness: a forecast over MaxYears years of a positive yield at a
\* non-zero rate, its last entry below its first.
C12_Witness ==
    /\ year.forecast.shown
    /\ year.forecast.years = MaxYears
    /\ ~RIsZero(year.forecast.deg_rate)
    /\ RLt(R(0), year.y1_yield)
    /\ RLt(year.forecast.deg_data[MaxYears], year.forecast.deg_data[1])
    /\ RLt(year.forecast.deg_data[1], year.forecast.cumulative_mwh)

\* C13 (as the specification states it): on the same weather, with the AC
\* limit and everything else equal, the larger DC capacity never gives the
\* smaller annual energy.
C13_MonotoneInDc ==
    year.ran => RLe(year.y1_yield, year.y1_yield_more)

\* the outcomes the body of run_full_sim can have on the arguments args
BodyOutcomes(args) == {RunFullSimBody(args, wx) : wx \in WxAnswers}

\* the memo c holds one outcome per argument tuple, and the outcomes the run
\* v returned, from the memo or not, are outcomes the body has on exactly the
\* arguments of its calls (scen is the store the comparison was read from)
KeyedByConfiguration(c, v, scen) ==
    /\ \A e1, e2 \in c : e1.args = e2.args => e1 = e2
    /\ v.sim_called
       => /\ v.primary \in BodyOutcomes(SimArgs(v.inputs))
          /\ Cached(c, SimArgs(v.inputs))
          /\ CacheGet(c, SimArgs(v.inputs)) = v.primary
    /\ (v.status = "shown" /\ v.comp_entered)
       => /\ v.comp_ret \in BodyOutcomes(CompArgs(Lookup(scen, v.comp_name)))
          /\ CacheGet(c, CompArgs(Lookup(scen, v.comp_name))) = v.comp_ret

\* C14: a stored outcome is never dropped or replaced; a call whose arguments
\* are in the memo returns the stored outcome, result or error, without
\* asking the weather service, whatever the service would answer now; and
\* after every run the memo is keyed by the full argument tuple: the outcome
\* a call returns is one the body has on exactly that call's arguments.
C14_MemoIdempotentAndKeyed ==
    [][/\ cache \subseteq cache'
       /\ (view'.sim_called /\ Cached(cache, SimArgs(view'.inputs)))
          => /\ view'.primary = CacheGet(cache, SimArgs(view'.inputs))
             /\ view'.primary_hit
             /\ view'.primary_fetches = 0
       /\ KeyedByConfiguration(cache', view', session_state'.scenarios)]_vars

\* C14 witness: a stored error is returned again without a fetch, while the
\* memo holds the outcome of another configuration as well.
C14_Witness ==
    /\ view.sim_called
    /\ view.primary_hit
    /\ view.primary_fetches = 0
    /\ ~view.primary.ok
    /\ \E e \in cache : e.ret.ok

\* C15: every page run ends with the session's location set and has bound
\* lat/lon to it, no run is aborted in the site selection; the geocoder is
\* asked in a run exactly when the entered address differs from the address
\* last looked up, so the branch that reads the stored location runs only on
\* a location that is set and leaves it as it was; and a run that reports
\* "Address not found" or "Location lookup failed" has set the location to
\* the default (37.38, -5.98) under the default display name.
C15_GeocodingNeverBlocks ==
    [][/\ view'.status # "crashed"
       /\ ~session_state'.location.isNone
       /\ view'.inputs.lat = session_state'.location.lat
       /\ view'.inputs.lon = session_state'.location.lon
       /\ session_state'.last_address = Str(widgets'.address)
       /\ view'.looked_up = (Str(widgets'.address) # session_state.last_address)
       /\ ~view'.looked_up
          => /\ ~session_state.location.isNone
             /\ session_state'.location = session_state.location
             /\ session_state'.location_name = session_state.location_name
       /\ (\E r \in view'.reported : r.what = "geocoding")
          => /\ view'.looked_up
             /\ session_state'.location = Loc(DefaultLat, DefaultLon)
             /\ session_state'.location_name = Str(DefaultLocationName)]_vars

\* C15 witness: after a lookup that fell back to the default, a later run
\* takes the stored location without asking the geocoder and is shown.
C15_Witness ==
    /\ view.status = "shown"
    /\ ~view.looked_up
    /\ widgets.address = "Atlantis"
    /\ session_state.location = Loc(DefaultLat, DefaultLon)
    /\ session_state.location_name = Str(DefaultLocationName)
    /\ view.inputs.lat = DefaultLat

\* C16: whenever the comparison block of a run executes, the selected name
\* is a key of the store and the lookup of the scenario does not fail; and
\* after every run, the comparison mode is off while the store is empty, so
\* a name left selected by an emptied store is never looked up.
C16_ComparisonTargetValid ==
    /\ view.status # "crashed"
    /\ view.comp_entered => HasKey(Scenarios, view.comp_name)
    /\ ComparisonEntered(session_state)
       => HasKey(Scenarios, session_state.selected_comparison.name)
    /\ Len(Scenarios) = 0 => ~session_state.comparison_mode

\* C16 witness: the store was cleared while a scenario was selected for
\* comparison; the run after the clear reached the simulation with the
\* selection still in the session, the store empty and the mode off.
C16_Witness ==
    /\ view.event = "clear"
    /\ view.sim_called
    /\ ~view.comp_entered
    /\ session_state.selected_comparison.isSet
    /\ ~HasKey(Scenarios, session_state.selected_comparison.name)
    /\ Len(Scenarios) = 0
    /\ ~session_state.comparison_mode

====
